---- MODULE Spec2Model ----
(***************************************************************************)
(* Lifecycle model of react-square-payment-form:                           *)
(*   src/src/hooks/useSqPaymentForm.ts      (useSquarePaymentForm)         *)
(*   src/src/components/SquarePaymentForm.tsx (SquarePaymentForm)          *)
(*                                                                         *)
(* One controller instance (one call site of the hook) is mounted at a     *)
(* time; it may be unmounted and a fresh instance mounted again.  The      *)
(* document and the global SqPaymentForm class are process-wide and        *)
(* survive a remount.  Every action is one event of the single-threaded    *)
(* UI queue together with the re-render and the effects React flushes for  *)
(* it.                                                                     *)
(***************************************************************************)
EXTENDS Integers, Sequences, FiniteSets, TLC

\* ---------------------------------------------------------------- bounds
MaxMounts == 2      \* controller instances mounted one after another
MaxHandles == 3     \* SqPaymentForm objects constructed in a run
MaxNonce == 2       \* requestCardNonce calls accepted by the handles
MaxLoadedCallbacks == 2  \* paymentFormLoaded deliveries by the handles
MaxVerify == 2      \* verifyBuyer calls the callers make
MaxSwaps == 2       \* re-renders in which the caller passes new callbacks

\* ------------------------------------------------------------- constants
LoadError == "Unable to load Square payment library"
AlreadyInitialized == "Square payment form has already been initialized"
DefaultBuildError == "Unable to build Square payment form"
ReferenceError == "SqPaymentForm is not defined"

\* messages a throwing constructor or build() may carry
ThrownMessages == {"", "boom"}

\* what `new SqPaymentForm(config)` followed by `.build()` does when the
\* global class is defined
Outcomes ==
  {[kind |-> "ok", msg |-> ""]}
    \cup {[kind |-> k, msg |-> m] : k \in {"ctorThrows", "buildThrows"}, m \in ThrownMessages}

Wallets == {"applePay", "googlePay", "masterpass"}

\* SqMethods objects: any subset of the wallet keys, each with a boolean
Methods == UNION {[ks -> BOOLEAN] : ks \in SUBSET Wallets}

\* nonces are single-use: the k-th nonce-received event carries the k-th nonce
Nonces == {<<"cnon", k>> : k \in 1..MaxNonce}
Undefined == "undefined"
\* what a verifyBuyer callback may report: no result, or a result's token
VerificationResults == {"noresult", "tok_abc"}

\* the optional callbacks of Props that decide control flow
PropsSet ==
  [createVerificationDetails : BOOLEAN,
   methodsSupported : BOOLEAN,
   paymentFormLoaded : BOOLEAN]

VARIABLES
  \* process-wide
  libDefined,        \* typeof SqPaymentForm === 'function'
  scriptRequests,    \* script elements appended to document.body
  pending,           \* instances whose script element is still loading
  \* the controller instance
  mounted, mountGen, viaShell, props,
  scriptLoaded, built, loaded, errorMessage,
  applePayState, googlePayState, masterpassState,
  paymentFormRef,    \* 0 is undefined, else an index into handles
  \* the external handles constructed so far
  handles,
  \* observations
  attempt,           \* the instance's latest construction attempt
  buildWhileLive,    \* build() was signalled with a handle in the ref
  loadFailed,        \* this instance's script element reported onerror
  unmountTeardowns,  \* cleanup invocations made by the latest unmount
  shellDestroyThrew, \* the shell's destroy() call threw on unmount
  loadedSets,        \* times loaded went false -> true in this instance
  loadedNotified,    \* props.paymentFormLoaded invocations in this instance
  lastReported,      \* per wallet, the latest value an event reported
  nonceRequests,     \* requestCardNonce calls made so far
  nonceEvents,       \* nonce-received events processed so far
  lastApi,           \* the createNonce / verifyBuyer call made in the latest step
  dom,               \* mount-point elements the caller's children render
  cbVersion,         \* which closures the caller's latest render passed as props
  lastInvoke,        \* the latest caller callback a handle invoked
  config             \* the latest SqPaymentFormConfiguration assembled

vars ==
  <<libDefined, scriptRequests, pending, mounted, mountGen, viaShell, props,
    scriptLoaded, built, loaded, errorMessage, applePayState, googlePayState,
    masterpassState, paymentFormRef, handles, attempt, buildWhileLive,
    loadFailed, unmountTeardowns, shellDestroyThrew, loadedSets,
    loadedNotified, lastReported, nonceRequests, nonceEvents, lastApi, dom,
    cbVersion, lastInvoke, config>>

processVars == <<libDefined, scriptRequests, pending>>
walletVars == <<applePayState, googlePayState, masterpassState, lastReported>>
nonceVars == <<nonceRequests, nonceEvents>>
loadedObs == <<loadedSets, loadedNotified>>
callbackVars == <<cbVersion, lastInvoke>>
configVars == <<dom, config>>

NoApi == [op |-> "none", live |-> FALSE, invoked |-> 0, target |-> 0, threw |-> FALSE]
NoInvoke == [cb |-> "none", reached |-> 0, current |-> 0]
NoConfig == [built |-> FALSE]

NoAttempt == [made |-> FALSE, scriptLoaded |-> FALSE, thrown |-> FALSE, msg |-> "", handle |-> 0]

\* the state before any instance is mounted, in a document that renders
\* the mount-point elements d
Start(d) ==
  /\ libDefined = FALSE
  /\ scriptRequests = 0
  /\ pending = {}
  /\ mounted = FALSE
  /\ mountGen = 0
  /\ viaShell = FALSE
  /\ props = [createVerificationDetails |-> FALSE, methodsSupported |-> FALSE,
              paymentFormLoaded |-> FALSE]
  /\ scriptLoaded = FALSE
  /\ built = FALSE
  /\ loaded = FALSE
  /\ errorMessage = ""
  /\ applePayState = "loading"
  /\ googlePayState = "loading"
  /\ masterpassState = "loading"
  /\ paymentFormRef = 0
  /\ handles = <<>>
  /\ attempt = NoAttempt
  /\ buildWhileLive = FALSE
  /\ loadFailed = FALSE
  /\ unmountTeardowns = 0
  /\ shellDestroyThrew = FALSE
  /\ loadedSets = 0
  /\ loadedNotified = 0
  /\ lastReported = [w \in Wallets |-> "none"]
  /\ nonceRequests = 0
  /\ nonceEvents = <<>>
  /\ lastApi = NoApi
  /\ dom = d
  /\ cbVersion = 1
  /\ lastInvoke = NoInvoke
  /\ config = NoConfig

Init == Start({})

\* ------------------------------------------------------------ operators

\* error.message || 'Unable to build Square payment form'
ErrorMessageOf(msg) == IF msg = "" THEN DefaultBuildError ELSE msg

\* buildSqPaymentFormConfiguration({ methodsSupported, ...props }) reads
\* props.methodsSupported from an object in which the caller's props are
\* spread after the hook's own tracker: TRUE when the handle is given the
\* hook's tracker, FALSE when it is given the caller's callback.
InternalMethodsSupported(p) == ~p.methodsSupported

\* the object `new SqPaymentForm(config)` yields for instance gen
NewHandle(gen, p, ok) ==
  [owner |-> gen, props |-> p, built |-> ok, destroyCalls |-> 0,
   nonceReq |-> 0, recalcs |-> 0, loadedCbs |-> 0, verifyReq |-> 0,
   afterDestroy |-> FALSE, destroyThrew |-> FALSE, cfgVersion |-> 0,
   imageUrls |-> FALSE]

\* the controller invokes an operation of handle h; the handle notes an
\* operation that reaches it after its destroy()
invoke(hs, h) == [hs EXCEPT ![h].afterDestroy = @ \/ hs[h].destroyCalls > 0]

\* how many calls of one kind (a counter field of the handles) the handles
\* hs have taken together
RECURSIVE Calls(_, _)
Calls(hs, field) ==
  IF hs = <<>> THEN 0 ELSE hs[Len(hs)][field] + Calls(SubSeq(hs, 1, Len(hs) - 1), field)

\* handle h after a call of its destroy() that throws iff t
destroy(hs, h, t) ==
  [invoke(hs, h) EXCEPT ![h].destroyCalls = @ + 1, ![h].destroyThrew = @ \/ t]

\* a cleanup that destroys the handle and leaves it in the ref
cleanup_keepsRef(ref, hs, t) ==
  IF ref = 0
    THEN [ref |-> 0, hs |-> hs, reset |-> FALSE, threw |-> FALSE]
    ELSE [ref |-> ref, hs |-> destroy(hs, ref, t), reset |-> TRUE, threw |-> t]

\* a cleanup whose clearing and resetting follow destroy() without a
\* finally: a throw of destroy() skips them
cleanup_noFinally(ref, hs, t) ==
  IF ref = 0
    THEN [ref |-> 0, hs |-> hs, reset |-> FALSE, threw |-> FALSE]
    ELSE IF t
      THEN [ref |-> ref, hs |-> destroy(hs, ref, t), reset |-> FALSE, threw |-> TRUE]
      ELSE [ref |-> 0, hs |-> destroy(hs, ref, t), reset |-> TRUE, threw |-> FALSE]

\* cleanup of the build effect: nothing when the ref is empty; else
\* destroy the handle in the ref and, whether or not destroy() throws
\* (t), clear the ref and reset loaded and built
cleanup(ref, hs, t) ==
  IF ref = 0
    THEN [ref |-> 0, hs |-> hs, reset |-> FALSE, threw |-> FALSE]
    ELSE [ref |-> 0, hs |-> destroy(hs, ref, t), reset |-> TRUE, threw |-> t]

\* a build effect that does not look at the error message
HasError_never(err) == FALSE

\* `errorMessage.length > 0`: there's already an error
HasError(err) == err # ""

\* the callbacks object of a configuration built in a render whose props
\* carry the caller's callbacks of version v: handles constructed by the
\* effect of that render (those after the first n) hold version v
callbacks(hs, n, v) ==
  [h \in 1..Len(hs) |-> IF h > n THEN [hs[h] EXCEPT !.cfgVersion = v] ELSE hs[h]]

\* body of the build effect, run by React when `built` changed
buildEffect(b, ref, err, sl, lib, hs, gen, p, o, att) ==
  LET same == [ref |-> ref, err |-> err, hs |-> hs, attempt |-> att]
      tried(thrown, msg, h) ==
        [made |-> TRUE, scriptLoaded |-> sl, thrown |-> thrown, msg |-> msg, handle |-> h]
      n == Len(hs) + 1
  IN  IF b = FALSE THEN same
      ELSE IF ref # 0 THEN [same EXCEPT !.err = AlreadyInitialized]
      ELSE IF HasError(err) THEN same
      ELSE IF ~lib
        THEN \* evaluating the undefined global SqPaymentForm throws
             [same EXCEPT !.err = ErrorMessageOf(ReferenceError),
                          !.attempt = tried(TRUE, ReferenceError, 0)]
      ELSE IF o.kind = "ctorThrows"
        THEN [same EXCEPT !.err = ErrorMessageOf(o.msg),
                          !.attempt = tried(TRUE, o.msg, 0)]
      ELSE IF o.kind = "buildThrows"
        THEN [same EXCEPT !.err = ErrorMessageOf(o.msg),
                          !.hs = Append(hs, NewHandle(gen, p, FALSE)),
                          !.attempt = tried(TRUE, o.msg, n)]
      ELSE [same EXCEPT !.ref = n,
                        !.hs = Append(hs, NewHandle(gen, p, TRUE)),
                        !.attempt = tried(FALSE, "", n)]

\* loadSqPaymentFormLibrary: TRUE when onSuccess is called at once, FALSE
\* when a new script element is appended
LibraryPresent(reqs, lib) == reqs > 0 /\ lib

\* a setBuilt(true) that re-renders and re-runs the build effect every time
BuildChangesState_always(b) == TRUE

\* build: setBuilt(true); TRUE when the state changes and React re-renders
BuildChangesState(b) == b # TRUE

\* defaultProps.formId
DefaultFormId == "sq-payment-form"

\* the object useSquarePaymentForm returns to its caller; functions are
\* named by the operation they run
HookReturn(apple, google, masterpass, err, ld) ==
  [build |-> "build",
   context |-> [applePayState |-> apple,
                formId |-> DefaultFormId,
                googlePayState |-> google,
                masterpassState |-> masterpass,
                onCreateNonce |-> "createNonce",
                onVerifyBuyer |-> "verifyBuyer"],
   error |-> err,
   loaded |-> ld,
   submit |-> "createNonce"]

\* a property read `v.field`: undefined when the object has no such field
Read(v, field) == IF field \in DOMAIN v THEN v[field] ELSE Undefined

\* `value={{ ...context }}`: a copy of the own fields of the hook's return
ProvidedValue(context) == [f \in DOMAIN context |-> context[f]]

\* the optional mount points a caller's children may render
MountPoints ==
  {"card", "gift-card", "apple-pay", "google-pay", "masterpass", "card-number",
   "cvv", "postal-code", "expiration-date"}

\* `${formId}-sq-card` and the like
ElementId(formId, mp) == formId \o "-sq-" \o mp

MountElements == {ElementId(DefaultFormId, mp) : mp \in MountPoints}

\* document.getElementById(id) finds an element
getElementById(d, id) == id \in d

\* the configuration key of the block a mount point feeds
BlockKeys ==
  [card |-> "card", giftCard |-> "gift-card", applePay |-> "apple-pay",
   googlePay |-> "google-pay", masterpass |-> "masterpass",
   cardNumber |-> "card-number", cvv |-> "cvv", postalCode |-> "postal-code",
   expirationDate |-> "expiration-date"]

\* an object without fields
NoFields == [k \in {} |-> ""]

\* `if (document.getElementById(id)) config[key] = { elementId: id }`
Block(d, key) ==
  IF getElementById(d, ElementId(DefaultFormId, BlockKeys[key]))
    THEN key :> ElementId(DefaultFormId, BlockKeys[key])
    ELSE NoFields

\* a probe that looks for the gift-card mount point first
Variant_giftCardFirst(d) ==
  IF getElementById(d, ElementId(DefaultFormId, "gift-card")) THEN "giftCard"
  ELSE IF getElementById(d, ElementId(DefaultFormId, "card")) THEN "card"
  ELSE "fields"

\* the branch of the if / else if / else over the mount points
Variant(d) ==
  IF getElementById(d, ElementId(DefaultFormId, "card")) THEN "card"
  ELSE IF getElementById(d, ElementId(DefaultFormId, "gift-card")) THEN "giftCard"
  ELSE "fields"

\* buildSqPaymentFormConfiguration: the fields of the configuration object;
\* a block is named by its elementId, a disabled entry is "false"
buildSqPaymentFormConfiguration(d) ==
  LET base == [autoBuild |-> "false", callbacks |-> "callbacks"]
      classes == [inputClass |-> "inputClass", inputStyles |-> "inputStyles"]
  IN  CASE Variant(d) = "card" -> Block(d, "card") @@ base
        [] Variant(d) = "giftCard" -> Block(d, "giftCard") @@ classes @@ base
        [] Variant(d) = "fields" ->
             Block(d, "applePay") @@ Block(d, "googlePay") @@ Block(d, "masterpass")
             @@ Block(d, "cardNumber") @@ Block(d, "cvv")
             @@ (IF getElementById(d, ElementId(DefaultFormId, "postal-code"))
                   THEN Block(d, "postalCode")
                   ELSE "postalCode" :> "false")
             @@ Block(d, "expirationDate") @@ classes @@ base

\* the configuration variable after a run of the build effect that made
\* attempt att: the argument of `new SqPaymentForm(...)` is assembled
\* unless evaluating the undefined class threw first
Assembled(att, old, d, cfg) ==
  IF att # old /\ att.made /\ att.msg # ReferenceError
    THEN [built |-> TRUE, probed |-> d, value |-> buildSqPaymentFormConfiguration(d)]
    ELSE cfg

\* what SquarePaymentForm returns from a render: the error text alone when
\* `error` is truthy, else the provider around the form container
render(error, formId) ==
  IF error # ""
    THEN [className |-> "sq-payment-form", shows |-> "sq-error-message",
          text |-> error, id |-> Undefined]
    ELSE [className |-> "sq-payment-form", shows |-> "children",
          text |-> "", id |-> formId]

\* ---------------------------------------------------------------- actions

\* a fresh instance mounts: React runs the effects in order (script load,
\* build effect with built = false, and, under the shell, build()), then
\* flushes the batched state updates in one re-render
Mount(shell, p, o, d) ==
  /\ ~mounted
  /\ mountGen < MaxMounts
  /\ Len(handles) < MaxHandles
  /\ LET gen == mountGen + 1
         present == LibraryPresent(scriptRequests, libDefined)
         r == buildEffect(shell, 0, "", present, libDefined, handles, gen, p, o, NoAttempt)
     IN  /\ mounted' = TRUE
         /\ mountGen' = gen
         /\ viaShell' = shell
         /\ props' = p
         /\ scriptLoaded' = present
         /\ scriptRequests' = IF present THEN scriptRequests ELSE scriptRequests + 1
         /\ pending' = IF present THEN pending ELSE pending \cup {gen}
         /\ built' = shell
         /\ paymentFormRef' = r.ref
         /\ errorMessage' = r.err
         /\ handles' = callbacks(r.hs, Len(handles), 1)
         /\ attempt' = r.attempt
         /\ config' = Assembled(r.attempt, NoAttempt, d, config)
  /\ loaded' = FALSE
  /\ applePayState' = "loading"
  /\ googlePayState' = "loading"
  /\ masterpassState' = "loading"
  /\ lastReported' = [w \in Wallets |-> "none"]
  /\ buildWhileLive' = FALSE
  /\ loadFailed' = FALSE
  /\ unmountTeardowns' = 0
  /\ shellDestroyThrew' = FALSE
  /\ loadedSets' = 0
  /\ loadedNotified' = 0
  /\ lastApi' = NoApi
  /\ dom' = d
  /\ cbVersion' = 1
  /\ lastInvoke' = NoInvoke
  /\ UNCHANGED <<libDefined, nonceVars>>

\* a build() signal handled as `new SqPaymentForm(cfg).build()` on the spot,
\* with neither the effect's guards nor the previous cleanup
build_imperative(b, ref, err, sl, lib, hs, gen, p, o, att, t) ==
  [buildEffect(TRUE, 0, "", sl, lib, hs, gen, p, o, att) EXCEPT !.err = err]

\* build(): setBuilt(true); when `built` changed React calls the previous
\* run's cleanup and runs the build effect again
build(b, ref, err, sl, lib, hs, gen, p, o, att, t) ==
  IF BuildChangesState(b)
    THEN LET c == cleanup(ref, hs, t)
         IN  buildEffect(TRUE, c.ref, err, sl, lib, c.hs, gen, p, o, att)
    ELSE [ref |-> ref, err |-> err, hs |-> hs, attempt |-> att]

\* the caller signals build()
Build(o, t) ==
  /\ mounted
  /\ Len(handles) < MaxHandles
  /\ LET r == build(built, paymentFormRef, errorMessage, scriptLoaded, libDefined,
                    handles, mountGen, props, o, attempt, t)
     IN  /\ built' = TRUE
         /\ paymentFormRef' = r.ref
         /\ errorMessage' = r.err
         /\ handles' = callbacks(r.hs, Len(handles), cbVersion)
         /\ attempt' = r.attempt
         /\ config' = Assembled(r.attempt, attempt, dom, config)
  /\ buildWhileLive' = (buildWhileLive \/ paymentFormRef # 0)
  /\ UNCHANGED <<processVars, mounted, mountGen, viaShell, props, scriptLoaded, loaded,
                 walletVars, loadFailed, unmountTeardowns, shellDestroyThrew,
                 loadedObs, nonceVars,
                 callbackVars, dom>>
  /\ lastApi' = NoApi

\* script.onload of the element instance g appended
ScriptOnload(g) ==
  /\ g \in pending
  /\ pending' = pending \ {g}
  /\ libDefined' = TRUE
  /\ scriptLoaded' = IF mounted /\ g = mountGen THEN TRUE ELSE scriptLoaded
  /\ UNCHANGED <<scriptRequests, mounted, mountGen, viaShell, props, built, loaded,
                 errorMessage, walletVars, paymentFormRef, handles, attempt,
                 buildWhileLive, loadFailed, unmountTeardowns, shellDestroyThrew,
                 loadedObs, nonceVars,
                 callbackVars, configVars>>
  /\ lastApi' = NoApi

\* script.onerror of the element instance g appended
ScriptOnerror(g) ==
  /\ g \in pending
  /\ pending' = pending \ {g}
  /\ IF mounted /\ g = mountGen
       THEN errorMessage' = LoadError /\ loadFailed' = TRUE
       ELSE UNCHANGED <<errorMessage, loadFailed>>
  /\ UNCHANGED <<libDefined, scriptRequests, mounted, mountGen, viaShell, props,
                 scriptLoaded, built, loaded, walletVars, paymentFormRef, handles,
                 attempt, buildWhileLive, unmountTeardowns, shellDestroyThrew,
                 loadedObs, nonceVars,
                 callbackVars, configVars>>
  /\ lastApi' = NoApi

\* the instance unmounts: React calls the build effect's cleanup; the shell's
\* own cleanup then calls `destroy`, which the hook's return value lacks
Unmount(t) ==
  /\ mounted
  /\ LET c == cleanup(paymentFormRef, handles, t)
     IN  /\ paymentFormRef' = c.ref
         /\ handles' = c.hs
         /\ loaded' = IF c.reset THEN FALSE ELSE loaded
         /\ built' = IF c.reset THEN FALSE ELSE built
  /\ mounted' = FALSE
  /\ unmountTeardowns' = unmountTeardowns + 1
  /\ shellDestroyThrew' = viaShell
  /\ UNCHANGED <<processVars, mountGen, viaShell, props, scriptLoaded, errorMessage,
                 walletVars, attempt, buildWhileLive, loadFailed, loadedObs, nonceVars,
                 callbackVars, configVars>>
  /\ lastApi' = NoApi

\* PayState a reported boolean is recorded as
PayStateOf(v) == IF v = TRUE THEN "ready" ELSE "unavailable"

\* the hook's methodsSupported: the new state of wallet w after SqMethods m
methodsSupported(m, w, old) == IF w \in DOMAIN m THEN PayStateOf(m[w]) ELSE old

\* the masterpass effect, run when masterpassState changed from old to new:
\* with a handle in the ref, the state "ready" and the masterpass button in
\* the document, it asks the handle for the button's image
masterpassEffect(hs, ref, old, new, d) ==
  IF /\ new # old
     /\ ref # 0
     /\ new = "ready"
     /\ getElementById(d, ElementId(DefaultFormId, "masterpass"))
    THEN [invoke(hs, ref) EXCEPT ![ref].imageUrls = TRUE]
    ELSE hs

\* handle h reports wallet availability through the methodsSupported
\* callback of its configuration
MethodsSupported(h, m) ==
  /\ h \in 1..Len(handles)
  /\ handles[h].built
  /\ handles[h].destroyCalls = 0
  /\ handles[h].owner = mountGen
  /\ mounted
  /\ lastReported' = [w \in Wallets |->
                        IF w \in DOMAIN m THEN (IF m[w] THEN "true" ELSE "false")
                        ELSE lastReported[w]]
  /\ IF InternalMethodsSupported(handles[h].props)
       THEN /\ masterpassState' = methodsSupported(m, "masterpass", masterpassState)
            /\ applePayState' = methodsSupported(m, "applePay", applePayState)
            /\ googlePayState' = methodsSupported(m, "googlePay", googlePayState)
       ELSE UNCHANGED <<masterpassState, applePayState, googlePayState>>
  /\ handles' = masterpassEffect(handles, paymentFormRef, masterpassState,
                                 masterpassState', dom)
  /\ UNCHANGED <<processVars, mounted, mountGen, viaShell, props, scriptLoaded, built,
                 loaded, errorMessage, paymentFormRef, attempt, buildWhileLive,
                 loadFailed, unmountTeardowns, shellDestroyThrew, loadedObs, nonceVars,
                 callbackVars, configVars>>
  /\ lastApi' = NoApi

\* a loaded effect that runs after every form-loaded callback
LoadedChangesState_always(l) == TRUE

\* setLoaded(true): TRUE when the state changes and the loaded effect runs
LoadedChangesState(l) == l # TRUE

\* handle h invokes the paymentFormLoaded callback of its configuration; the
\* loaded effect then runs when `loaded` changed
PaymentFormLoaded(h) ==
  /\ h \in 1..Len(handles)
  /\ handles[h].built
  /\ handles[h].destroyCalls = 0
  /\ handles[h].owner = mountGen
  /\ mounted
  /\ Calls(handles, "loadedCbs") < MaxLoadedCallbacks
  /\ LET hs == [handles EXCEPT ![h].loadedCbs = @ + 1]
     IN  IF LoadedChangesState(loaded)
           THEN /\ loaded' = TRUE
                /\ loadedSets' = loadedSets + 1
                /\ IF paymentFormRef # 0
                     THEN /\ handles' = [invoke(hs, paymentFormRef)
                                            EXCEPT ![paymentFormRef].recalcs = @ + 1]
                          /\ loadedNotified' =
                               IF props.paymentFormLoaded THEN loadedNotified + 1
                               ELSE loadedNotified
                     ELSE /\ handles' = hs
                          /\ UNCHANGED loadedNotified
           ELSE /\ handles' = hs
                /\ UNCHANGED <<loaded, loadedObs>>
  /\ UNCHANGED <<processVars, mounted, mountGen, viaShell, props, scriptLoaded, built,
                 errorMessage, walletVars, paymentFormRef, attempt, buildWhileLive,
                 loadFailed, unmountTeardowns, shellDestroyThrew, nonceVars,
                 callbackVars, configVars>>
  /\ lastApi' = NoApi

\* handles of the mounted instance that were built and not destroyed
LiveBuilt ==
  {h \in 1..Len(handles) :
     handles[h].owner = mountGen /\ handles[h].built /\ handles[h].destroyCalls = 0}

\* a delegation that calls the method without looking at the ref
HasHandle_unchecked(ref) == TRUE

\* `paymentForm && paymentForm.requestCardNonce()`: the guard of a delegation
HasHandle(ref) == ref # 0

\* what a caller's call of op did: whether it found a handle in the ref,
\* invoked it, or threw on an undefined one
ApiCall(op, ref) ==
  [op |-> op, live |-> LiveBuilt # {},
   invoked |-> IF HasHandle(ref) /\ ref # 0 THEN 1 ELSE 0,
   target |-> IF HasHandle(ref) THEN ref ELSE 0,
   threw |-> HasHandle(ref) /\ ref = 0]

\* createNonce (context.onCreateNonce, submit)
createNonce ==
  /\ mountGen > 0
  /\ nonceRequests < MaxNonce
  /\ lastApi' = ApiCall("createNonce", paymentFormRef)
  /\ IF HasHandle(paymentFormRef) /\ paymentFormRef # 0
       THEN /\ handles' = [invoke(handles, paymentFormRef)
                             EXCEPT ![paymentFormRef].nonceReq = @ + 1]
            /\ nonceRequests' = nonceRequests + 1
       ELSE UNCHANGED <<handles, nonceRequests>>
  /\ UNCHANGED <<processVars, mounted, mountGen, viaShell, props, scriptLoaded, built,
                 loaded, errorMessage, walletVars, paymentFormRef, attempt,
                 buildWhileLive, loadFailed, unmountTeardowns, shellDestroyThrew,
                 loadedObs, nonceEvents, callbackVars, configVars>>

\* verifyBuyer(source, verificationDetails, callback) (context.onVerifyBuyer)
verifyBuyer ==
  /\ mountGen > 0
  /\ Calls(handles, "verifyReq") < MaxVerify
  /\ lastApi' = ApiCall("verifyBuyer", paymentFormRef)
  /\ IF HasHandle(paymentFormRef) /\ paymentFormRef # 0
       THEN handles' = [invoke(handles, paymentFormRef)
                          EXCEPT ![paymentFormRef].verifyReq = @ + 1]
       ELSE UNCHANGED handles
  /\ UNCHANGED <<processVars, mounted, mountGen, viaShell, props, scriptLoaded, built,
                 loaded, errorMessage, walletVars, paymentFormRef, attempt,
                 buildWhileLive, loadFailed, unmountTeardowns, shellDestroyThrew,
                 loadedObs, nonceVars, callbackVars, configVars>>

\* paymentFormRef.current as the instance that owns handle h reads it: an
\* instance that was unmounted ran cleanup, which cleared its ref
RefOfOwner(h) == IF handles[h].owner = mountGen THEN paymentFormRef ELSE 0

\* the fourth argument of the caller's callback after a verification
\* round trip: result ? result.token : undefined
TokenOf(res) == IF res = "noresult" THEN Undefined ELSE res

\* a guard that forgets the errors and looks at the provider alone
ForwardsDirectly_providerOnly(errs, p) == ~p.createVerificationDetails

\* if (errors || !props.createVerificationDetails)
ForwardsDirectly(errs, p) == errs \/ ~p.createVerificationDetails

\* cardNonceResponseReceived(errors, nonce, ...): what it does with a
\* nonce-received event of handle h, given the owner's props p and ref
cardNonceResponseReceived(h, n, errs, p, ref) ==
  LET ev == [nonce |-> n, errors |-> errs,
             provider |-> p.createVerificationDetails,
             verifyCalls |-> 0, verifySource |-> <<>>,
             awaiting |-> FALSE, calls |-> 0,
             result |-> "-",
             argErrors |-> FALSE, argNonce |-> <<>>, argToken |-> "-"]
  IN  IF ForwardsDirectly(errs, p)
        THEN [ev EXCEPT !.calls = 1, !.argErrors = errs, !.argNonce = n, !.argToken = ""]
      ELSE IF ref = 0
        THEN ev
      ELSE [ev EXCEPT !.verifyCalls = 1, !.verifySource = n, !.awaiting = TRUE]

\* handle h answers a requestCardNonce call with the nonce-received callback
NonceReceived(h, n, errs) ==
  /\ h \in 1..Len(handles)
  /\ handles[h].nonceReq > 0
  /\ n = <<"cnon", Len(nonceEvents) + 1>>
  /\ LET ev == cardNonceResponseReceived(h, n, errs, handles[h].props, RefOfOwner(h))
         hs == [handles EXCEPT ![h].nonceReq = @ - 1]
     IN  /\ nonceEvents' = Append(nonceEvents, ev)
         /\ handles' = IF ev.verifyCalls > 0 THEN invoke(hs, RefOfOwner(h)) ELSE hs
  /\ UNCHANGED <<processVars, mounted, mountGen, viaShell, props, scriptLoaded, built,
                 loaded, errorMessage, walletVars, paymentFormRef, attempt,
                 buildWhileLive, loadFailed, unmountTeardowns, shellDestroyThrew,
                 loadedObs, nonceRequests,
                 callbackVars, configVars>>
  /\ lastApi' = NoApi

\* the handle answers the verifyBuyer call made for event e
VerifyBuyerAnswered(e, err, res) ==
  /\ e \in 1..Len(nonceEvents)
  /\ nonceEvents[e].awaiting
  /\ nonceEvents' =
       [nonceEvents EXCEPT ![e].awaiting = FALSE,
                           ![e].calls = @ + 1,
                           ![e].result = res,
                           ![e].argErrors = err,
                           ![e].argNonce = nonceEvents[e].nonce,
                           ![e].argToken = TokenOf(res)]
  /\ UNCHANGED <<processVars, mounted, mountGen, viaShell, props, scriptLoaded, built,
                 loaded, errorMessage, walletVars, paymentFormRef, handles, attempt,
                 buildWhileLive, loadFailed, unmountTeardowns, shellDestroyThrew,
                 loadedObs, nonceRequests,
                 callbackVars, configVars>>
  /\ lastApi' = NoApi

\* the callbacks a caller passes in Props and may replace on a re-render
CallerCallbacks ==
  {"cardNonceResponseReceived", "createVerificationDetails", "createPaymentRequest",
   "inputEventReceived", "shippingContactChanged", "shippingOptionChanged",
   "unsupportedBrowserDetected"}

\* useDynamicCallback(callback): a stable function that calls the callback
\* of the latest render
useDynamicCallback(captured, current) == current

\* a callback the configuration took from the props, called as captured
Direct(captured, current) == captured

\* the version of the caller's callback cb that an invocation by a handle
\* reaches: cardNonceResponseReceived goes through useDynamicCallback and
\* reads props.cardNonceResponseReceived and props.createVerificationDetails
\* in the latest render; the others are the props fields put in the
\* configuration when the handle was constructed
Reaches(cb, captured, current) ==
  IF cb \in {"cardNonceResponseReceived", "createVerificationDetails"}
    THEN useDynamicCallback(captured, current)
    ELSE Direct(captured, current)

\* the caller re-renders the component with new callback functions; no
\* state changes and no effect depends on them
SwapCallbacks ==
  /\ mounted
  /\ cbVersion <= MaxSwaps
  /\ cbVersion' = cbVersion + 1
  /\ UNCHANGED <<processVars, mounted, mountGen, viaShell, props, scriptLoaded, built,
                 loaded, errorMessage, walletVars, paymentFormRef, handles, attempt,
                 buildWhileLive, loadFailed, unmountTeardowns, shellDestroyThrew,
                 loadedObs, nonceVars, lastInvoke, configVars>>
  /\ lastApi' = NoApi

\* handle h invokes callback cb of its configuration
HandleInvokes(h, cb) ==
  /\ mounted
  /\ h \in 1..Len(handles)
  /\ handles[h].owner = mountGen
  /\ handles[h].built
  /\ handles[h].destroyCalls = 0
  /\ lastInvoke' = [cb |-> cb,
                    reached |-> Reaches(cb, handles[h].cfgVersion, cbVersion),
                    current |-> cbVersion]
  /\ UNCHANGED <<processVars, mounted, mountGen, viaShell, props, scriptLoaded, built,
                 loaded, errorMessage, walletVars, paymentFormRef, handles, attempt,
                 buildWhileLive, loadFailed, unmountTeardowns, shellDestroyThrew,
                 loadedObs, nonceVars, cbVersion, configVars>>
  /\ lastApi' = NoApi

\* buildSqPaymentFormConfiguration applied to the document's mount points
Configure ==
  /\ ~config.built
  /\ config' = [built |-> TRUE, probed |-> dom,
                value |-> buildSqPaymentFormConfiguration(dom)]
  /\ UNCHANGED <<processVars, mounted, mountGen, viaShell, props, scriptLoaded, built,
                 loaded, errorMessage, walletVars, paymentFormRef, handles, attempt,
                 buildWhileLive, loadFailed, unmountTeardowns, shellDestroyThrew,
                 loadedObs, nonceVars, callbackVars, dom>>
  /\ lastApi' = NoApi

\* the events of the instance's life: mount, build(), the script element's
\* load and error events, unmount; P is the set of props a caller may pass,
\* D the sets of mount points its children may render, and T whether the
\* library's destroy() may throw
Lifecycle(P, D, T) ==
  \/ \E shell \in BOOLEAN, p \in P, o \in Outcomes, d \in D : Mount(shell, p, o, d)
  \/ \E o \in Outcomes, t \in T : Build(o, t)
  \/ \E g \in 1..MaxMounts : ScriptOnload(g)
  \/ \E g \in 1..MaxMounts : ScriptOnerror(g)
  \/ \E t \in T : Unmount(t)

\* props that differ in the callbacks one group of events reads
PropsWith(field) ==
  {p \in PropsSet : \A f \in DOMAIN p : f # field => p[f] = FALSE}

\* lifecycle, with a destroy() that may throw, and the form-loaded callback
Next ==
  \/ Lifecycle(PropsWith("paymentFormLoaded"), {{}}, BOOLEAN)
  \/ \E h \in 1..MaxHandles : PaymentFormLoaded(h)

Spec == Init /\ [][Next]_vars

\* lifecycle and wallet availability
NextWallets ==
  \/ Lifecycle(PropsWith("methodsSupported"), {{}}, {FALSE})
  \/ \E h \in 1..MaxHandles, m \in Methods : MethodsSupported(h, m)

SpecWallets == Init /\ [][NextWallets]_vars

\* lifecycle and nonce generation
NextNonce ==
  \/ Lifecycle(PropsWith("createVerificationDetails"), {{}}, {FALSE})
  \/ createNonce
  \/ \E h \in 1..MaxHandles, n \in Nonces, errs \in BOOLEAN : NonceReceived(h, n, errs)
  \/ \E e \in 1..MaxNonce, err \in BOOLEAN, res \in VerificationResults :
       VerifyBuyerAnswered(e, err, res)

SpecNonce == Init /\ [][NextNonce]_vars

\* lifecycle and the caller's createNonce / verifyBuyer calls
NextCalls ==
  \/ Lifecycle(PropsWith("none"), {{}}, {FALSE})
  \/ createNonce
  \/ verifyBuyer

SpecCalls == Init /\ [][NextCalls]_vars

\* lifecycle, the caller replacing its callbacks, and handles calling them
NextCallbacks ==
  \/ Lifecycle(PropsWith("none"), {{}}, {FALSE})
  \/ SwapCallbacks
  \/ \E h \in 1..MaxHandles, cb \in CallerCallbacks : HandleInvokes(h, cb)

SpecCallbacks == Init /\ [][NextCallbacks]_vars

\* the configuration assembled over every set of mount points
InitConfig == \E d \in SUBSET MountElements : Start(d)

NextConfig == Configure

SpecConfig == InitConfig /\ [][NextConfig]_vars

\* a caller that passes createVerificationDetails and leaves the wallet
\* states to the controller
OpsProps ==
  {p \in PropsSet : p.createVerificationDetails /\ ~p.methodsSupported /\ ~p.paymentFormLoaded}

\* every event that makes the controller call an operation of a handle,
\* interleaved with mounting, build(), script load and teardown, for a
\* caller of the hook in a document with the masterpass button and a
\* library that constructs, builds and destroys the form without throwing
\* and reports Masterpass as available
NextOps ==
  \/ \E p \in OpsProps :
       Mount(FALSE, p, [kind |-> "ok", msg |-> ""], {ElementId(DefaultFormId, "masterpass")})
  \/ Build([kind |-> "ok", msg |-> ""], FALSE)
  \/ \E g \in 1..MaxMounts : ScriptOnload(g)
  \/ Unmount(FALSE)
  \/ createNonce
  \/ verifyBuyer
  \/ \E h \in 1..MaxHandles, n \in Nonces : NonceReceived(h, n, FALSE)
  \/ \E h \in 1..MaxHandles : PaymentFormLoaded(h)
  \/ \E h \in 1..MaxHandles : MethodsSupported(h, [masterpass |-> TRUE])

SpecOps == Init /\ [][NextOps]_vars

\* ---------------------------------------------------------------- claims

HandleIds == 1..Len(handles)

\* handles the mounted instance constructed and has not destroyed
LiveHandles == {h \in HandleIds : handles[h].owner = mountGen /\ handles[h].destroyCalls = 0}

\* C1: while an instance is mounted, at most one handle that it constructed
\* and has not destroyed exists, whatever build(), script, callback and
\* unmount events came before.
C1_AtMostOneLiveHandle == mounted => Cardinality(LiveHandles) <= 1

\* a second instance holds its handle and build() was signalled again on it
C1_Witness ==
  /\ mounted
  /\ mountGen = 2
  /\ paymentFormRef \in LiveHandles
  /\ buildWhileLive

\* C2: after an unmount exactly one teardown call was made, the ref is
\* empty, no handle was destroyed twice and every handle the instance
\* constructed has been destroyed.
C2_UnmountTearsDown ==
  (~mounted /\ mountGen > 0) =>
    /\ unmountTeardowns = 1
    /\ paymentFormRef = 0
    /\ \A h \in HandleIds : handles[h].destroyCalls <= 1
    /\ \A h \in HandleIds : handles[h].owner = mountGen => handles[h].destroyCalls = 1

\* C3: after build() was signalled while a handle was live, the error is
\* the already-initialized message and the handle has been torn down.
C3_BuildWhileLiveIsError ==
  buildWhileLive =>
    /\ errorMessage = AlreadyInitialized
    /\ paymentFormRef = 0

\* C4: after a build attempt in which the constructor or build() threw, the
\* error is the thrown message or the default (until a load failure
\* replaces it), the ref is empty and a handle constructed in the attempt
\* has been destroyed.
C4_FailedBuildTearsDown ==
  (attempt.made /\ attempt.thrown) =>
    /\ errorMessage # ""
    /\ (~loadFailed => errorMessage = ErrorMessageOf(attempt.msg))
    /\ (handles # <<>> /\ attempt.handle # 0 =>
          /\ paymentFormRef # attempt.handle
          /\ handles[attempt.handle].destroyCalls >= 1)

\* C5: a construction attempt is made only when the instance has seen its
\* script load succeed.
C5_ConstructOnlyWhenScriptReady == attempt.made => attempt.scriptLoaded

\* C6: once the instance's script load failed, the error is the load-failure
\* message and the instance has constructed no handle.
C6_LoadFailureNoHandle ==
  loadFailed =>
    /\ errorMessage = LoadError
    /\ \A h \in HandleIds : handles[h].owner # mountGen

\* C7: every nonce-received event that has been processed (and whose
\* verification, if one was requested, was answered) reached the caller's
\* callback exactly once.
C7_CallbackExactlyOnce ==
  \A e \in 1..Len(nonceEvents) :
    IF nonceEvents[e].awaiting THEN nonceEvents[e].calls = 0 ELSE nonceEvents[e].calls = 1

\* the wallet state of the hook
WalletState(w) ==
  CASE w = "applePay" -> applePayState
    [] w = "googlePay" -> googlePayState
    [] w = "masterpass" -> masterpassState

\* C8: each wallet's state is "ready" when the latest event that mentioned
\* it reported true, "unavailable" when it reported anything else, and
\* untouched ("loading") when no event mentioned it.
C8_WalletStateIsLastReported ==
  mounted =>
    \A w \in Wallets :
      WalletState(w) = CASE lastReported[w] = "true" -> "ready"
                         [] lastReported[w] = "false" -> "unavailable"
                         [] OTHER -> "loading"

\* C9: a handle that delivered the form-loaded callback, however often, had
\* recalculateSize called exactly once, and its instance set loaded once and
\* called the caller's loaded notifier once (when one was supplied); a
\* handle that delivered none had none of these.
C9_LoadedExactlyOnce ==
  /\ loadedSets <= 1
  /\ loadedNotified = (IF props.paymentFormLoaded THEN loadedSets ELSE 0)
  /\ \A h \in HandleIds :
       /\ handles[h].recalcs = (IF handles[h].loadedCbs >= 1 THEN 1 ELSE 0)
       /\ (handles[h].owner = mountGen /\ handles[h].loadedCbs >= 1) =>
            /\ loadedSets = 1
            /\ (mounted => loaded)

\* the handle delivered the form-loaded callback twice to an instance
\* whose caller supplied a loaded notifier
C9_Witness ==
  /\ mounted
  /\ paymentFormRef # 0
  /\ props.paymentFormLoaded
  /\ handles[paymentFormRef].loadedCbs = 2
  /\ handles[paymentFormRef].recalcs = 1
  /\ loadedNotified = 1
  /\ loaded

\* C10: an event with errors = null under a verification-details provider
\* caused exactly one verifyBuyer call with the nonce as source, and, once
\* that call was answered, one call of the caller's callback with the
\* original nonce and the result's token (an empty fourth argument, '' or
\* undefined, when the result carried none).
C10_VerifiedTokenForwarded ==
  \A e \in 1..Len(nonceEvents) :
    (~nonceEvents[e].errors /\ nonceEvents[e].provider) =>
      /\ nonceEvents[e].verifyCalls = 1
      /\ nonceEvents[e].verifySource = nonceEvents[e].nonce
      /\ ~nonceEvents[e].awaiting =>
           /\ nonceEvents[e].calls = 1
           /\ nonceEvents[e].argNonce = nonceEvents[e].nonce
           /\ IF nonceEvents[e].result = "noresult"
                THEN nonceEvents[e].argToken \in {"", Undefined}
                ELSE nonceEvents[e].argToken = nonceEvents[e].result

\* C11: an event that carries errors, or arrives when the caller supplied no
\* verification-details provider, was forwarded to the caller's callback
\* once, with the errors and nonce it came with and '' as the token, and
\* caused no verifyBuyer call.
C11_DirectForward ==
  \A e \in 1..Len(nonceEvents) :
    (nonceEvents[e].errors \/ ~nonceEvents[e].provider) =>
      /\ nonceEvents[e].calls = 1
      /\ nonceEvents[e].argErrors = nonceEvents[e].errors
      /\ nonceEvents[e].argNonce = nonceEvents[e].nonce
      /\ nonceEvents[e].argToken = ""
      /\ nonceEvents[e].verifyCalls = 0
      /\ ~nonceEvents[e].awaiting

\* an event with errors reached an instance that has a provider and a live
\* handle, and another reached an instance without a provider
C11_Witness ==
  /\ \E e \in 1..Len(nonceEvents) :
       nonceEvents[e].errors /\ nonceEvents[e].provider /\ nonceEvents[e].calls = 1
  /\ \E e \in 1..Len(nonceEvents) :
       ~nonceEvents[e].errors /\ ~nonceEvents[e].provider /\ nonceEvents[e].calls = 1

\* everything of the controller and its handles that a call may touch
ControllerState ==
  <<scriptLoaded, built, loaded, errorMessage, applePayState, googlePayState,
    masterpassState, paymentFormRef, handles, mounted>>

\* C12: a createNonce or verifyBuyer call made while no built handle is live
\* invokes nothing, throws nothing and leaves the controller's state, its
\* error and every handle as they were; made while a handle is live it
\* invokes that handle once.
C12_CallsDelegateOrNoop ==
  /\ [](lastApi.op # "none" =>
          /\ ~lastApi.threw
          /\ IF lastApi.live
               THEN lastApi.invoked = 1 /\ lastApi.target \in 1..Len(handles)
                    /\ handles[lastApi.target].owner = mountGen
                    /\ handles[lastApi.target].built
               ELSE lastApi.invoked = 0 /\ lastApi.target = 0)
  /\ [][(lastApi' # lastApi /\ lastApi'.op # "none" /\ ~lastApi'.live)
          => UNCHANGED ControllerState]_vars
  /\ [][(lastApi' # lastApi /\ lastApi'.op # "none" /\ lastApi'.live)
          => /\ UNCHANGED <<scriptLoaded, built, loaded, errorMessage, paymentFormRef>>
             /\ handles'[paymentFormRef].nonceReq + handles'[paymentFormRef].verifyReq
                  = handles[paymentFormRef].nonceReq + handles[paymentFormRef].verifyReq + 1]_vars

\* both calls were made as no-ops after teardown of a built handle, and
\* the handle of an instance has taken a nonce request and a verification
C12_Witness ==
  \/ /\ ~mounted
     /\ lastApi.op = "verifyBuyer" /\ ~lastApi.live
     /\ \E h \in 1..Len(handles) : handles[h].destroyCalls = 1 /\ handles[h].nonceReq = 1
  \/ /\ mounted
     /\ lastApi.op = "createNonce" /\ lastApi.live /\ lastApi.invoked = 1
     /\ handles[paymentFormRef].verifyReq = 1

\* C13: within one mount, an error message that is non-empty stays
\* non-empty, no constructor call is attempted after it (a later build()
\* included), and the shell's render shows the error text and not the form
\* container.
C13_ErrorsAreTerminal ==
  /\ [][(mounted /\ mounted' /\ mountGen' = mountGen /\ errorMessage # "")
          => /\ errorMessage' # ""
             /\ attempt' = attempt
             /\ Len(handles') = Len(handles)
             /\ paymentFormRef' = paymentFormRef]_vars
  /\ [](mounted /\ viaShell /\ errorMessage # ""
          => /\ render(errorMessage, Undefined).shows = "sq-error-message"
             /\ render(errorMessage, Undefined).text = errorMessage)

\* the script failed to load before build() was signalled, and the build()
\* that followed constructed nothing
C13_Witness ==
  /\ mounted
  /\ ~viaShell
  /\ loadFailed
  /\ built
  /\ ~attempt.made
  /\ errorMessage = LoadError

\* the hook's return value in the current state
Context == HookReturn(applePayState, googlePayState, masterpassState, errorMessage, loaded)

\* the field of the context value that carries wallet w's state
WalletField(w) ==
  CASE w = "applePay" -> "applePayState"
    [] w = "googlePay" -> "googlePayState"
    [] w = "masterpass" -> "masterpassState"

\* C14: while the shell shows the form, a descendant reading the provided
\* value finds each wallet's current state, the form id, onCreateNonce,
\* onVerifyBuyer, build, destroy, error and loaded as fields of the value
\* itself; the container carries the form id; destroy is a function.
C14_ContextExposesFields ==
  (mounted /\ viaShell /\ errorMessage = "") =>
    /\ \A w \in Wallets : Read(ProvidedValue(Context), WalletField(w)) = WalletState(w)
    /\ Read(ProvidedValue(Context), "formId") = DefaultFormId
    /\ \A f \in {"onCreateNonce", "onVerifyBuyer", "build", "destroy", "error", "loaded"} :
         f \in DOMAIN ProvidedValue(Context)
    /\ render(Read(Context, "error"), Read(Context, "formId")).id = DefaultFormId
    /\ Read(Context, "destroy") # Undefined

\* C15: however many instances mount and in whatever order the script
\* events arrive, the script asset is requested at most once in the
\* process, and an instance that mounts when the library is loaded is
\* ScriptReady at once.
C15_ScriptRequestedOnce ==
  /\ scriptRequests <= 1
  /\ (mounted /\ libDefined /\ mountGen \notin pending /\ ~loadFailed) => scriptLoaded

\* C16: once the script has loaded for the mounted instance and build() has
\* been signalled, in either order, and neither the constructor nor the
\* handle's build() threw, the instance holds a live handle and its error
\* message is empty. (Every step of the controller is atomic and the error
\* message never empties again, so a state that breaks this stays broken
\* until unmount: the instance never reaches Built.)
C16_BuildSucceedsOnceLoaded ==
  (/\ mounted
   /\ built
   /\ scriptLoaded
   /\ ~loadFailed
   /\ attempt.thrown => attempt.msg = ReferenceError)
    => /\ paymentFormRef \in LiveHandles
       /\ errorMessage = ""

\* C17: whichever of the caller's callbacks a handle invokes, and however
\* often the caller replaced its callbacks since the handle was
\* constructed, the invocation reaches the caller's current callback.
C17_CallbacksReachLatest ==
  lastInvoke.cb # "none" => lastInvoke.reached = lastInvoke.current

\* the block keys of an assembled configuration
BlocksOf(cfg) == DOMAIN cfg \cap DOMAIN BlockKeys

Has(mp) == ElementId(DefaultFormId, mp) \in config.probed

\* C18: with the card mount point present the configuration holds the card
\* block and no other block; else with the gift-card mount point present it
\* holds the gift-card block and no other; else it holds a wallet or field
\* block exactly when that block's mount point is present, and postalCode
\* is "false" when the postal-code mount point is absent.
C18_ConfigurationVariants ==
  config.built =>
    IF Has("card")
      THEN BlocksOf(config.value) = {"card"}
    ELSE IF Has("gift-card")
      THEN BlocksOf(config.value) = {"giftCard"}
    ELSE /\ \A k \in DOMAIN BlockKeys \ {"postalCode"} :
              k \in DOMAIN config.value <=> Has(BlockKeys[k])
         /\ "postalCode" \in DOMAIN config.value
         /\ config.value["postalCode"] =
              (IF Has("postal-code") THEN ElementId(DefaultFormId, "postal-code")
               ELSE "false")
         /\ \A k \in BlocksOf(config.value) \ {"postalCode"} :
              config.value[k] = ElementId(DefaultFormId, BlockKeys[k])

\* the card variant was assembled in a document that also has the gift-card
\* mount point and a wallet's
C18_Witness ==
  /\ config.built
  /\ Has("card") /\ Has("gift-card") /\ Has("apple-pay") /\ ~Has("postal-code")
  /\ BlocksOf(config.value) = {"card"}

\* C19: whatever createNonce, verifyBuyer, nonce-received, form-loaded and
\* wallet-availability events are interleaved with teardown, no handle is
\* asked for an operation (requestCardNonce, verifyBuyer, recalculateSize,
\* masterpassImageUrl, destroy) after its destroy() was called.
C19_NoOperationAfterDestroy ==
  \A h \in 1..Len(handles) : ~handles[h].afterDestroy /\ handles[h].destroyCalls <= 1

\* after a handle that took every kind of operation was destroyed, a
\* caller's createNonce found no handle
C19_Witness ==
  /\ ~mounted
  /\ lastApi.op = "createNonce" /\ lastApi.invoked = 0
  /\ \E h \in 1..Len(handles) :
       /\ handles[h].destroyCalls = 1
       /\ handles[h].imageUrls
       /\ handles[h].recalcs = 1
       /\ handles[h].verifyReq = 1
       /\ \E e \in 1..Len(nonceEvents) : nonceEvents[e].verifyCalls = 1

\* C20: after a teardown in which destroy() threw, the ref is empty, loaded
\* and built are reset, destroy() was called once, and a further cleanup
\* would find no handle and call nothing.
C20_TeardownSurvivesThrow ==
  \A h \in 1..Len(handles) :
    handles[h].destroyThrew =>
      /\ handles[h].destroyCalls = 1
      /\ paymentFormRef # h
      /\ (handles[h].owner = mountGen /\ ~mounted) =>
           /\ paymentFormRef = 0
           /\ ~loaded
           /\ ~built
           /\ \A t \in BOOLEAN :
                cleanup(paymentFormRef, handles, t) =
                  [ref |-> 0, hs |-> handles, reset |-> FALSE, threw |-> FALSE]

\* a built and loaded form whose destroy() threw when it was unmounted
C20_Witness ==
  /\ ~mounted
  /\ \E h \in 1..Len(handles) :
       /\ handles[h].destroyThrew
       /\ handles[h].owner = mountGen
       /\ handles[h].recalcs = 1
       /\ handles[h].built

\* handles the mounted instance has constructed, destroyed or not
ConstructedHere == {h \in HandleIds : handles[h].owner = mountGen}

\* C21: within one mount the constructor is called at most once; once
\* build() has been signalled, no later step of that mount (a further
\* build() included) makes another attempt, constructs a handle, changes
\* the ref or destroys a handle, and a further build() signal, whatever the
\* library would do, leaves the ref, the error, the handles and the attempt
\* as they are, whether the first attempt succeeded or failed.
C21_ConstructedAtMostOnce ==
  /\ [](mounted => Cardinality(ConstructedHere) <= 1)
  /\ [](mounted /\ built =>
          \A o \in Outcomes, t \in BOOLEAN :
            build(built, paymentFormRef, errorMessage, scriptLoaded, libDefined,
                  handles, mountGen, props, o, attempt, t)
              = [ref |-> paymentFormRef, err |-> errorMessage, hs |-> handles,
                 attempt |-> attempt])
  /\ [][(mounted /\ built /\ mounted' /\ mountGen' = mountGen)
          => /\ built'
             /\ attempt' = attempt
             /\ Len(handles') = Len(handles)
             /\ paymentFormRef' = paymentFormRef
             /\ \A h \in HandleIds : handles'[h].destroyCalls = handles[h].destroyCalls]_vars

\* build() was signalled again on the first instance while it held the
\* handle of its one successful attempt
C21_Witness ==
  /\ mounted
  /\ mountGen = 1
  /\ buildWhileLive
  /\ attempt.made /\ ~attempt.thrown
  /\ ConstructedHere = {paymentFormRef}
  /\ handles[paymentFormRef].destroyCalls = 0

====
